---------------------------- MODULE Spec2Model ----------------------------
(***************************************************************************)
(* A model of hausp::BigInt (src/include/BigInt.hpp): a sign-magnitude     *)
(* arbitrary-precision integer held as a bool `signal` and a deque `data`  *)
(* of limbs, least-significant limb first.                                 *)
(*                                                                         *)
(* Scale.  TLC's integers are 32 bits wide, so the 32-bit limb (Group) and *)
(* its 64-bit accumulator (DoubleGroup) cannot be held as they are.  The   *)
(* limb is modelled GROUP_BIT_SIZE = 4 bits wide, the accumulator twice    *)
(* that, and the decimal chunk of 9 digits (radix 10^9) as 1 digit (radix  *)
(* 10), which keeps the order 10^9 < 2^32 < 10^10 of the source as         *)
(* 10 < 16 < 100.  Every algorithm is written against these names, never   *)
(* against the numbers, and every truncation of the source to Group or     *)
(* DoubleGroup is a reduction modulo GROUP_RADIX or DOUBLE_RADIX here.     *)
(*                                                                         *)
(* Sequences are 1-based: limb i of the source is data[i + 1].             *)
(***************************************************************************)
EXTENDS Integers, Sequences, FiniteSets, TLC

(***************************************************************************)
(* Program constants                                                       *)
(***************************************************************************)
GROUP_BIT_SIZE == 4

Pow2(n) == 2 ^ n

GROUP_RADIX == Pow2(GROUP_BIT_SIZE)

GROUP_MAX == GROUP_RADIX - 1

\* DoubleGroup (uint64_t in the source) holds values below this.
DOUBLE_RADIX == GROUP_RADIX * GROUP_RADIX

POSITIVE == FALSE

NEGATIVE == TRUE

\* Decimal digits per chunk (9 in the source: substr(i, 9), fragment.size() < 9).
DEC_DIGITS == 1

\* The decimal radix (1000000000ull in the source).
DEC_RADIX == 10 ^ DEC_DIGITS

(***************************************************************************)
(* Bounds of the model                                                     *)
(***************************************************************************)
\* Operands are the integers -MaxValue .. MaxValue (and "-0").
MaxValue == 300

\* Shift amounts are -MaxShift .. MaxShift.
MaxShift == 17

\* Input strings of fromString have at most MaxStrLen characters.
MaxStrLen == 4

(***************************************************************************)
(* Machine words                                                           *)
(***************************************************************************)
\* Conversion to Group (uint32_t).
ToGroup(v) == v % GROUP_RADIX

\* Conversion to DoubleGroup (uint64_t).
ToDouble(v) == v % DOUBLE_RADIX

\* ~g on a Group.
Not(g) == GROUP_MAX - g

RECURSIVE BitAndN(_, _, _)
BitAndN(a, b, n) ==
    IF n = 0 THEN 0
    ELSE ((a % 2) * (b % 2)) + 2 * BitAndN(a \div 2, b \div 2, n - 1)

\* a & b on Groups.
BitAnd(a, b) == BitAndN(a, b, GROUP_BIT_SIZE)

RECURSIVE BitOrN(_, _, _)
BitOrN(a, b, n) ==
    IF n = 0 THEN 0
    ELSE (IF (a % 2) + (b % 2) > 0 THEN 1 ELSE 0)
         + 2 * BitOrN(a \div 2, b \div 2, n - 1)

\* a | b on Groups.
BitOr(a, b) == BitOrN(a, b, GROUP_BIT_SIZE)

Abs(v) == IF v < 0 THEN -v ELSE v

(***************************************************************************)
(* Values                                                                  *)
(***************************************************************************)
\* A BigInt: the two data members.
BigInt(sig, dat) == [signal |-> sig, data |-> dat]

\* BigInt() = default: signal = POSITIVE, data = {0}.
DefaultBigInt == BigInt(POSITIVE, <<0>>)

Last(seq) == seq[Len(seq)]

Front(seq) == SubSeq(seq, 1, Len(seq) - 1)

RECURSIVE Zeros(_)
Zeros(n) == IF n <= 0 THEN <<>> ELSE <<0>> \o Zeros(n - 1)

\* shrink() on a deque with at least one limb; ShrinkOutcomes covers the
\* call operator>>= makes on a deque it has emptied.
RECURSIVE shrink(_)
shrink(dat) ==
    IF Last(dat) = 0 /\ Len(dat) > 1 THEN shrink(Front(dat)) ELSE dat


(***************************************************************************)
(* Text: a std::string is a sequence of one-character strings.             *)
(***************************************************************************)
DigitChars == <<"0", "1", "2", "3", "4", "5", "6", "7", "8", "9">>

Digits == {DigitChars[i] : i \in 1..10}

\* The characters \s matches (of the alphabet the model feeds).
Spaces == {" "}

DigitValue(c) == (CHOOSE i \in 1..10 : DigitChars[i] = c) - 1

\* std::stoull on a string of decimal digits.
RECURSIVE stoull(_)
stoull(s) ==
    IF s = <<>> THEN 0
    ELSE 10 * stoull(Front(s)) + DigitValue(Last(s))

\* std::to_string on an unsigned value.
RECURSIVE to_string(_)
to_string(v) ==
    IF v < 10 THEN <<DigitChars[v + 1]>>
    ELSE to_string(v \div 10) \o <<DigitChars[(v % 10) + 1]>>

\* First position at or after i whose character is not in the class.
RECURSIVE SkipClass(_, _, _)
SkipClass(s, i, class) ==
    IF i <= Len(s) /\ s[i] \in class THEN SkipClass(s, i + 1, class) ELSE i

\* std::regex_match of "\\s*(\\+|-)?\\s*([0-9]+)\\s*": the classes are
\* disjoint, so the greedy match is the only one.  ok: the whole string
\* matched; sign: number_match[1]; digits: number_match[2].
RegexMatch(s) ==
    LET p1 == SkipClass(s, 1, Spaces)
        hasSign == p1 <= Len(s) /\ s[p1] \in {"+", "-"}
        p2 == IF hasSign THEN p1 + 1 ELSE p1
        p3 == SkipClass(s, p2, Spaces)
        p4 == SkipClass(s, p3, Digits)
        p5 == SkipClass(s, p4, Spaces)
    IN  [ok |-> p4 > p3 /\ p5 = Len(s) + 1,
         sign |-> IF hasSign THEN <<s[p1]>> ELSE <<>>,
         digits |-> SubSeq(s, p3, p4 - 1)]

(***************************************************************************)
(* Codec                                                                   *)
(***************************************************************************)
\* convertBase(uintmax_t): limbs of value, least significant first.
RECURSIVE convertBaseInt(_)
convertBaseInt(value) ==
    IF value < GROUP_RADIX THEN <<value>>
    ELSE <<value % GROUP_RADIX>> \o convertBaseInt(value \div GROUP_RADIX)

\* BigInt(T value): signal{value < 0}, data{convertBase(std::abs(value))}.
BigIntOf(value) == BigInt(value < 0, convertBaseInt(Abs(value)))

\* convertBase(const std::string&), first loop: the chunks of DEC_DIGITS
\* decimal digits, least significant chunk first; i is the source's i.
RECURSIVE DecimalChunks(_, _)
DecimalChunks(s, i) ==
    IF i = 0 THEN <<>>
    ELSE IF i > DEC_DIGITS - 1
         THEN <<ToGroup(stoull(SubSeq(s, i - DEC_DIGITS + 1, i)))>>
              \o DecimalChunks(s, i - DEC_DIGITS)
         ELSE <<ToGroup(stoull(SubSeq(s, 1, i)))>>

\* convertBase(const std::string&), the inner for loop from index i down
\* to k + 1 (indices of the source).
RECURSIVE ConvertPass(_, _, _)
ConvertPass(dat, i, k) ==
    IF i > k
    THEN LET true_value == ToDouble(dat[i + 1] * DEC_RADIX + dat[i])
         IN  ConvertPass([dat EXCEPT ![i] = ToGroup(true_value),
                                     ![i + 1] = ToGroup(true_value \div GROUP_RADIX)],
                         i - 1, k)
    ELSE dat

\* convertBase(const std::string&), the while (k < data.size()) loop.
RECURSIVE ConvertLoop(_, _)
ConvertLoop(dat, k) ==
    IF k < Len(dat)
    THEN ConvertLoop(shrink(ConvertPass(dat, Len(dat) - 1, k)), k + 1)
    ELSE dat

convertBaseStr(s) == ConvertLoop(DecimalChunks(s, Len(s)), 0)

\* fromString on a string the regex matches.
fromString(s) ==
    LET m == RegexMatch(s)
    IN  BigInt(m.sign = <<"-">>, shrink(convertBaseStr(m.digits)))

\* toDecimal(), the inner for loop from index i down to k + 1.
RECURSIVE DecimalPass(_, _, _)
DecimalPass(dec, i, k) ==
    IF i > k
    THEN LET true_value == ToDouble(ToDouble(dec[i + 1] * GROUP_RADIX) + dec[i])
             q == true_value \div DEC_RADIX
             d1 == [dec EXCEPT ![i] = ToGroup(true_value % DEC_RADIX)]
             d2 == IF q > GROUP_RADIX
                   THEN IF i < Len(d1) - 1
                        THEN [d1 EXCEPT ![i + 2] =
                                 ToGroup(d1[i + 2] + (q \div GROUP_RADIX))]
                        ELSE Append(d1, ToGroup(q \div GROUP_RADIX))
                   ELSE d1
             q2 == IF q > GROUP_RADIX THEN q % GROUP_RADIX ELSE q
         IN  DecimalPass([d2 EXCEPT ![i + 1] = ToGroup(q2)], i - 1, k)
    ELSE dec

\* toDecimal(), the while (k < dec_data.size()) loop.
RECURSIVE DecimalLoop(_, _)
DecimalLoop(dec, k) ==
    IF k < Len(dec)
    THEN DecimalLoop(DecimalPass(dec, Len(dec) - 1, k), k + 1)
    ELSE dec

\* toDecimal(): the base-DEC_RADIX digits, least significant first.
toDecimal(dat) ==
    LET dec == DecimalLoop(dat, 0)
    IN  IF Last(dec) > DEC_RADIX
        THEN Append([dec EXCEPT ![Len(dec)] = Last(dec) % DEC_RADIX],
                    ToGroup(Last(dec) \div DEC_RADIX))
        ELSE dec

\* fragment.insert(0, 1, '0') while fragment.size() < 9.
RECURSIVE PadFragment(_)
PadFragment(fragment) ==
    IF Len(fragment) < DEC_DIGITS THEN PadFragment(<<"0">> \o fragment)
    ELSE fragment

\* operator<<(std::ostream&, const BigInt&), the loop from index i - 1 down.
RECURSIVE WriteFragments(_, _)
WriteFragments(dec, i) ==
    IF i > 0
    THEN LET fragment == to_string(dec[i])
         IN  (IF i # Len(dec) THEN PadFragment(fragment) ELSE fragment)
             \o WriteFragments(dec, i - 1)
    ELSE <<>>

\* operator<<(std::ostream&, const BigInt&): the characters written.
WriteBigInt(number) ==
    LET dec_data == toDecimal(number.data)
    IN  (IF number.signal = NEGATIVE THEN <<"-">> ELSE <<>>)
        \o WriteFragments(dec_data, Len(dec_data))

(***************************************************************************)
(* Arithmetic                                                              *)
(***************************************************************************)
\* twoComplement(), the loop over the segments from position i (1-based).
RECURSIVE ComplementLoop(_, _, _)
ComplementLoop(dat, i, carry) ==
    IF i <= Len(dat)
    THEN LET complement == ToDouble(Not(dat[i]) + carry)
         IN  ComplementLoop([dat EXCEPT ![i] = ToGroup(complement)], i + 1,
                            complement \div GROUP_RADIX)
    ELSE [data |-> dat, carry |-> carry]

\* twoComplement(GroupVector& data, Group signal): the data it leaves.
twoComplement(dat, sig) ==
    LET r == ComplementLoop(dat, 1, 1)
        signal2 == ToGroup(Not(sig) + r.carry)
    IN  IF signal2 = 1 THEN Append(r.data, signal2) ELSE r.data

\* The three lambdas handed to carryOn:
\*   "sum"     carry + lhs + rhs
\*   "rhs-lhs" carry + ~lhs + rhs
\*   "lhs-rhs" carry + lhs + ~rhs
Operation(op, lhs, rhs, carry) ==
    CASE op = "sum" -> ToDouble(carry + lhs + rhs)
      [] op = "rhs-lhs" -> ToDouble(carry + Not(lhs) + rhs)
      [] op = "lhs-rhs" -> ToDouble(carry + lhs + Not(rhs))

CarryOf(result) == IF result \div GROUP_RADIX > 0 THEN 1 ELSE 0

\* carryOn(), the for loop over the limbs of rhs; i is the source's i.
RECURSIVE CarryFirstLoop(_, _, _, _, _)
CarryFirstLoop(dat, rdat, i, carry, op) ==
    IF i < Len(rdat)
    THEN LET result == Operation(op, dat[i + 1], rdat[i + 1], carry)
         IN  CarryFirstLoop([dat EXCEPT ![i + 1] = ToGroup(result)], rdat,
                            i + 1, CarryOf(result), op)
    ELSE [data |-> dat, carry |-> carry, i |-> i]

\* carryOn(), while (i < data.size() && carry != 0).
RECURSIVE CarrySecondLoop(_, _, _, _)
CarrySecondLoop(dat, i, carry, op) ==
    IF i < Len(dat) /\ carry # 0
    THEN LET result == Operation(op, dat[i + 1], 0, carry)
         IN  CarrySecondLoop([dat EXCEPT ![i + 1] = ToGroup(result)],
                             i + 1, CarryOf(result), op)
    ELSE [data |-> dat, carry |-> carry]

\* carryOn(rhs, cmpl, op) on *this = lhs.
carryOn(lhs, rhs, cmpl, op) ==
    LET padded == IF Len(lhs.data) < Len(rhs.data)
                  THEN lhs.data \o Zeros(Len(rhs.data) - Len(lhs.data))
                  ELSE lhs.data
        first == CarryFirstLoop(padded, rhs.data, 0, IF cmpl THEN 1 ELSE 0, op)
        second == CarrySecondLoop(first.data, first.i, first.carry, op)
        carry == second.carry
    IN  IF cmpl
        THEN LET signal_update == Operation(op, 0, 0, carry)
                 carry_out == CarryOf(signal_update)
                 value == ToGroup(signal_update)
                 extended == IF carry_out # carry
                             THEN Append(second.data, carry)
                             ELSE second.data
             IN  IF value = GROUP_MAX
                 THEN BigInt(NEGATIVE, shrink(twoComplement(extended, value)))
                 ELSE IF value = 0
                      THEN BigInt(POSITIVE, shrink(extended))
                      ELSE BigInt(lhs.signal, shrink(extended))
        ELSE IF carry > 0
             THEN BigInt(lhs.signal, shrink(Append(second.data, carry)))
             ELSE BigInt(lhs.signal, shrink(second.data))

\* operator+=, and so operator+ on a copy of lhs.
Plus(lhs, rhs) ==
    IF lhs.signal = rhs.signal
    THEN carryOn(lhs, rhs, FALSE, "sum")
    ELSE IF lhs.signal /\ ~rhs.signal
         THEN carryOn(lhs, rhs, TRUE, "rhs-lhs")
         ELSE carryOn(lhs, rhs, TRUE, "lhs-rhs")

\* operator-=, and so operator- on a copy of lhs.
Minus(lhs, rhs) ==
    IF lhs.signal = rhs.signal
    THEN carryOn(lhs, rhs, TRUE, "lhs-rhs")
    ELSE carryOn(lhs, rhs, FALSE, "sum")

\* Unary operator-.
Negate(x) == BigInt(~x.signal, x.data)

\* longMult: product[i + j] + result * data[j] + carry before it is stored
\* in the DoubleGroup result.
MultAccumulator(limb, digit, segment, carry) == limb + digit * segment + carry

\* A slip in longMult: the row ends without product[data.size() + i] += carry.
RECURSIVE MultRowCarryDropped(_, _, _, _, _, _, _)
MultRowCarryDropped(product, dat, digit, i, j, carry, widest) ==
    IF j < Len(dat)
    THEN LET wide == MultAccumulator(product[i + j + 1], digit, dat[j + 1], carry)
             result == ToDouble(wide)
         IN  MultRowCarryDropped([product EXCEPT ![i + j + 1] = ToGroup(result)],
                                 dat, digit, i, j + 1, result \div GROUP_RADIX,
                                 IF wide > widest THEN wide ELSE widest)
    ELSE [product |-> product, widest |-> widest]

\* longMult, the inner for loop from index j, then the carry of the row;
\* digit is rhs.data[i].  widest is the largest value the accumulator was
\* asked to hold so far (not part of the program's state).
RECURSIVE MultRow(_, _, _, _, _, _, _)
MultRow(product, dat, digit, i, j, carry, widest) ==
    IF j < Len(dat)
    THEN LET wide == MultAccumulator(product[i + j + 1], digit, dat[j + 1], carry)
             result == ToDouble(wide)
         IN  MultRow([product EXCEPT ![i + j + 1] = ToGroup(result)],
                     dat, digit, i, j + 1, result \div GROUP_RADIX,
                     IF wide > widest THEN wide ELSE widest)
    ELSE [product |-> [product EXCEPT ![Len(dat) + i + 1] = ToGroup(@ + carry)],
          widest |-> widest]

\* longMult, the outer for loop over the limbs of rhs from index i.
RECURSIVE MultRows(_, _, _, _, _)
MultRows(product, dat, rdat, i, widest) ==
    IF i < Len(rdat)
    THEN LET row == MultRow(product, dat, rdat[i + 1], i, 0, 0, widest)
         IN  MultRows(row.product, dat, rdat, i + 1, row.widest)
    ELSE [product |-> product, widest |-> widest]

\* longMult: the product vector of data.size() + rhs.data.size() + 1 limbs
\* after the loops.
MultProduct(lhs, rhs) ==
    MultRows(Zeros(Len(lhs.data) + Len(rhs.data) + 1), lhs.data, rhs.data, 0, 0)

\* longMult(rhs) on *this = lhs.
longMult(lhs, rhs) ==
    BigInt(lhs.signal # rhs.signal, shrink(MultProduct(lhs, rhs).product))

\* operator*=, and so operator* on a copy of lhs.
Times(lhs, rhs) == longMult(lhs, rhs)

(***************************************************************************)
(* Comparison                                                              *)
(***************************************************************************)
\* while (i > 0 && lhs.data[i] == rhs.data[i]) --i; the final i (source index).
RECURSIVE ScanDown(_, _, _)
ScanDown(ldat, rdat, i) ==
    IF i > 0 /\ ldat[i + 1] = rdat[i + 1] THEN ScanDown(ldat, rdat, i - 1) ELSE i

\* operator== on values with at least one limb.
Equal(lhs, rhs) ==
    IF lhs.signal # rhs.signal THEN FALSE
    ELSE IF Len(lhs.data) = Len(rhs.data)
         THEN LET i == ScanDown(lhs.data, rhs.data, Len(lhs.data) - 1)
              IN  i = 0 /\ lhs.data[i + 1] = rhs.data[i + 1]
         ELSE FALSE

\* operator==: how a call can end.  With both deques empty, i starts at
\* size_t(0) - 1 and data[i] reads out of bounds: undefined, so either
\* answer, or the process is aborted.
EqualOutcomes(lhs, rhs) ==
    IF lhs.signal = rhs.signal /\ lhs.data = <<>> /\ rhs.data = <<>>
    THEN {"true", "false", "crash"}
    ELSE {IF Equal(lhs, rhs) THEN "true" ELSE "false"}

\* operator< on values with at least one limb.
Less(lhs, rhs) ==
    IF lhs.signal # rhs.signal THEN lhs.signal
    ELSE IF Len(lhs.data) = Len(rhs.data)
         THEN LET i == ScanDown(lhs.data, rhs.data, Len(lhs.data) - 1)
              IN  lhs.data[i + 1] < rhs.data[i + 1]
         ELSE Len(lhs.data) < Len(rhs.data)

\* operator<: how a call can end.  With both deques empty, i starts at
\* size_t(0) - 1 and data[i] reads out of bounds, as in operator==.
LessOutcomes(lhs, rhs) ==
    IF lhs.signal = rhs.signal /\ lhs.data = <<>> /\ rhs.data = <<>>
    THEN {"true", "false", "crash"}
    ELSE {IF Less(lhs, rhs) THEN "true" ELSE "false"}

\* operator>: rhs < lhs.
GreaterOutcomes(lhs, rhs) == LessOutcomes(rhs, lhs)

\* The six comparison operators on one pair of operands: how the calls can
\* end.  lt, eq and gt are what operator<, operator== and operator> return;
\* operator<= is !(lhs > rhs), operator>= is !(lhs < rhs) and operator!= is
\* !(lhs == rhs).
CompareOutcomes(lhs, rhs) ==
    {[less |-> lt, equal |-> eq, greater |-> gt,
      lessEqual |-> IF gt = "crash" THEN gt
                    ELSE IF gt = "true" THEN "false" ELSE "true",
      greaterEqual |-> IF lt = "crash" THEN lt
                       ELSE IF lt = "true" THEN "false" ELSE "true",
      notEqual |-> IF eq = "crash" THEN eq
                   ELSE IF eq = "true" THEN "false" ELSE "true"] :
        lt \in LessOutcomes(lhs, rhs),
        eq \in EqualOutcomes(lhs, rhs),
        gt \in GreaterOutcomes(lhs, rhs)}

(***************************************************************************)
(* Shifts                                                                  *)
(*                                                                         *)
(* An operation that can run into undefined behaviour yields a set of      *)
(* outcomes: the value left in *this, and whether the call returned        *)
(* ("none") or the process was aborted ("crash").                          *)
(***************************************************************************)
Returned(x) == [value |-> x, fault |-> "none"]

Crashed(x) == [value |-> x, fault |-> "crash"]

\* shrink() as the shift operators call it.  On an empty deque data.back()
\* reads no element: undefined.  size() > 1 is false whatever is read, so a
\* call that returns leaves the deque empty; a checked build aborts.
ShrinkOutcomes(sig, dat) ==
    IF dat = <<>>
    THEN {Returned(BigInt(sig, dat)), Crashed(BigInt(sig, dat))}
    ELSE {Returned(BigInt(sig, shrink(dat)))}

\* operator<<=: shift_mask = ~((2 << (GROUP_BIT_SIZE - shift - 1)) - 1), in
\* the width of a limb (for shift = 0 the subtraction wraps to all ones).
LeftShiftMask(shift) ==
    Not(ToGroup(2 * Pow2(GROUP_BIT_SIZE - shift - 1) - 1))

\* A slip in operator<<=: 4 << in place of 2 << in the mask, which then
\* misses the lowest of the bits that spill.
LeftShiftedBitsNarrowMask(digit, shift) ==
    BitAnd(digit, Not(ToGroup(4 * Pow2(GROUP_BIT_SIZE - shift - 1) - 1)))
        \div Pow2(GROUP_BIT_SIZE - shift)

\* operator<<=: (digit & shift_mask) >> (GROUP_BIT_SIZE - shift).
LeftShiftedBits(digit, shift) ==
    BitAnd(digit, LeftShiftMask(shift)) \div Pow2(GROUP_BIT_SIZE - shift)

\* operator<<=, the loop over the digits from position i (1-based).
RECURSIVE LeftShiftLoop(_, _, _, _)
LeftShiftLoop(dat, i, carried_bits, shift) ==
    IF i <= Len(dat)
    THEN LeftShiftLoop(
             [dat EXCEPT ![i] = BitOr(ToGroup(dat[i] * Pow2(shift)), carried_bits)],
             i + 1, LeftShiftedBits(dat[i], shift), shift)
    ELSE [data |-> dat, carried_bits |-> carried_bits]

\* operator<<= past its test of shift < 0.
LeftShiftBody(x, amount) ==
    LET group_shift == amount \div GROUP_BIT_SIZE
        shift == amount % GROUP_BIT_SIZE
        r == LeftShiftLoop(Zeros(group_shift) \o x.data, 1, 0, shift)
        dat == IF r.carried_bits > 0 THEN Append(r.data, r.carried_bits)
               ELSE r.data
    IN  ShrinkOutcomes(x.signal, dat)

\* operator>>=: shift_mask = (1 << shift) - 1.
RightShiftMask(shift) == Pow2(shift) - 1

\* operator>>=, the loop from index i (of the source) down to 0.
RECURSIVE RightShiftLoop(_, _, _, _)
RightShiftLoop(dat, i, carried_bits, shift) ==
    IF i >= 0
    THEN LET shifted_bits == BitAnd(dat[i + 1], RightShiftMask(shift))
         IN  RightShiftLoop(
                 [dat EXCEPT ![i + 1] =
                      BitOr(dat[i + 1] \div Pow2(shift), carried_bits)],
                 i - 1,
                 ToGroup(shifted_bits * Pow2(GROUP_BIT_SIZE - shift)),
                 shift)
    ELSE dat

\* operator>>=: if (signal && data.size() == 1 && data.back() == 0)
\*                  data.back() = 1;
RightShiftSignFix(x) ==
    IF x.signal /\ Len(x.data) = 1 /\ Last(x.data) = 0
    THEN BigInt(x.signal, <<1>>)
    ELSE x

\* operator>>=: whether the whole-limb shift takes the early return.
RightShiftCollapses(group_shift, size) == group_shift > size

\* operator>>= past its test of shift < 0.
RightShiftBody(x, amount) ==
    LET group_shift == amount \div GROUP_BIT_SIZE
        shift == amount % GROUP_BIT_SIZE
    IN  IF RightShiftCollapses(group_shift, Len(x.data))
        THEN {Returned(BigInt(x.signal, <<IF x.signal THEN 1 ELSE 0>>))}
        ELSE LET popped == SubSeq(x.data, group_shift + 1, Len(x.data))
                 dat == RightShiftLoop(popped, Len(popped) - 1, 0, shift)
             IN  {IF o.fault = "none"
                  THEN Returned(RightShiftSignFix(o.value))
                  ELSE o : o \in ShrinkOutcomes(x.signal, dat)}

\* operator<<=(intmax_t), and so operator<< on a copy.
ShiftLeftOutcomes(x, amount) ==
    IF amount < 0 THEN RightShiftBody(x, Abs(amount))
    ELSE LeftShiftBody(x, amount)

\* operator>>=(intmax_t), and so operator>> on a copy.
ShiftRightOutcomes(x, amount) ==
    IF amount < 0 THEN LeftShiftBody(x, Abs(amount))
    ELSE RightShiftBody(x, amount)

(***************************************************************************)
(* The state machine: a caller of the library.                             *)
(*   input   the string handed to fromString                               *)
(*   lhs     the left (or only) operand                                    *)
(*   rhs     the right operand                                             *)
(*   amount  the shift amount                                              *)
(*   result  the BigInt the last call left                                 *)
(*   answer  what the last call returned that is not a BigInt: the bools   *)
(*           of the comparison operators, the digits of toDecimal (<<>>    *)
(*           before any such call)                                         *)
(*   text    the characters operator<< wrote                               *)
(*   pc      the calls made so far, oldest first                           *)
(*   fault   "none", "runtime_error" (fromString threw) or "crash"         *)
(***************************************************************************)
VARIABLES input, lhs, rhs, amount, result, answer, text, pc, fault

vars == <<input, lhs, rhs, amount, result, answer, text, pc, fault>>

\* The characters input strings are made of.
Alphabet == Digits \cup {" ", "+", "-", "a"}

Strings == UNION {[1..n -> Alphabet] : n \in 0..MaxStrLen}

\* The decimal text of an integer, as a caller would write it.
DecimalString(v) ==
    (IF v < 0 THEN <<"-">> ELSE <<>>) \o to_string(Abs(v))

\* The operands: what fromString returns for the decimal strings of
\* -MaxValue .. MaxValue and for "-0".
Operands ==
    {fromString(DecimalString(v)) : v \in (-MaxValue)..MaxValue}
        \cup {fromString(<<"-", "0">>)}

Amounts == (-MaxShift)..MaxShift

\* The longest chain of shifts applied to one operand.
MaxShiftCalls == 2

(***************************************************************************)
(* Text: fromString, then operator<< on what it returned.                  *)
(***************************************************************************)
InitText ==
    /\ input \in Strings
    /\ lhs = DefaultBigInt
    /\ rhs = DefaultBigInt
    /\ amount = 0
    /\ result = DefaultBigInt
    /\ answer = <<>>
    /\ text = <<>>
    /\ pc = <<>>
    /\ fault = "none"

\* BigInt::fromString(input) where the regex matches.
FromStringReturns ==
    /\ pc = <<>>
    /\ RegexMatch(input).ok
    /\ result' = fromString(input)
    /\ pc' = <<"fromString">>
    /\ UNCHANGED <<input, lhs, rhs, amount, answer, text, fault>>

\* BigInt::fromString(input) where it does not: throw std::runtime_error.
FromStringThrows ==
    /\ pc = <<>>
    /\ ~RegexMatch(input).ok
    /\ fault' = "runtime_error"
    /\ pc' = <<"fromString">>
    /\ UNCHANGED <<input, lhs, rhs, amount, result, answer, text>>

\* out << result.
Write ==
    /\ pc = <<"fromString">>
    /\ fault = "none"
    /\ text' = WriteBigInt(result)
    /\ pc' = Append(pc, "write")
    /\ UNCHANGED <<input, lhs, rhs, amount, result, fault, answer>>

NextText == FromStringReturns \/ FromStringThrows \/ Write

SpecText == InitText /\ [][NextText]_vars

(***************************************************************************)
(* Arithmetic: one of lhs + rhs, lhs - rhs, lhs * rhs.                     *)
(***************************************************************************)
InitArith ==
    /\ input = <<>>
    /\ lhs \in Operands
    /\ rhs \in Operands
    /\ amount = 0
    /\ result = DefaultBigInt
    /\ answer = <<>>
    /\ text = <<>>
    /\ pc = <<>>
    /\ fault = "none"

\* result = lhs + rhs.
Add ==
    /\ pc = <<>>
    /\ result' = Plus(lhs, rhs)
    /\ pc' = <<"plus">>
    /\ UNCHANGED <<input, lhs, rhs, amount, answer, text, fault>>

\* result = lhs - rhs.
Subtract ==
    /\ pc = <<>>
    /\ result' = Minus(lhs, rhs)
    /\ pc' = <<"minus">>
    /\ UNCHANGED <<input, lhs, rhs, amount, answer, text, fault>>

\* result = lhs * rhs.
Multiply ==
    /\ pc = <<>>
    /\ result' = Times(lhs, rhs)
    /\ pc' = <<"times">>
    /\ UNCHANGED <<input, lhs, rhs, amount, answer, text, fault>>

NextArith == Add \/ Subtract \/ Multiply

SpecArith == InitArith /\ [][NextArith]_vars

(***************************************************************************)
(* Shifts: a chain of result <<= amount and result >>= amount on lhs.      *)
(***************************************************************************)
InitShift ==
    /\ input = <<>>
    /\ lhs \in Operands
    /\ rhs = DefaultBigInt
    /\ amount \in Amounts
    /\ result = lhs
    /\ answer = <<>>
    /\ text = <<>>
    /\ pc = <<>>
    /\ fault = "none"

\* result <<= amount.
ShiftLeft ==
    /\ Len(pc) < MaxShiftCalls
    /\ fault = "none"
    /\ \E o \in ShiftLeftOutcomes(result, amount) :
           /\ result' = o.value
           /\ fault' = o.fault
    /\ pc' = Append(pc, "shl")
    /\ UNCHANGED <<input, lhs, rhs, amount, answer, text>>

\* result >>= amount.
ShiftRight ==
    /\ Len(pc) < MaxShiftCalls
    /\ fault = "none"
    /\ \E o \in ShiftRightOutcomes(result, amount) :
           /\ result' = o.value
           /\ fault' = o.fault
    /\ pc' = Append(pc, "shr")
    /\ UNCHANGED <<input, lhs, rhs, amount, answer, text>>

NextShift == ShiftLeft \/ ShiftRight

SpecShift == InitShift /\ [][NextShift]_vars

(***************************************************************************)
(* Calls: a value is constructed (from an integer or from a string) and    *)
(* then taken through a sequence of the public operations.  result is the  *)
(* value, lhs what it was before the last call, rhs the last argument.     *)
(***************************************************************************)
\* Integer arguments are -MaxArgument .. MaxArgument.
MaxArgument == 3

\* Shift amounts of a sequence are -MaxAmount .. MaxAmount.
MaxAmount == 5

\* Strings handed to fromString at the head of a sequence have at most
\* MaxInputLen characters.
MaxInputLen == 2

\* The longest sequence of calls, the construction included.
MaxCalls == 3

\* BigInt(v) for the integer arguments.
Arguments == {BigIntOf(v) : v \in (-MaxArgument)..MaxArgument}

InputStrings == UNION {[1..n -> Alphabet] : n \in 0..MaxInputLen}

InitCalls ==
    /\ input = <<>>
    /\ lhs = DefaultBigInt
    /\ rhs = DefaultBigInt
    /\ amount = 0
    /\ result = DefaultBigInt
    /\ answer = <<>>
    /\ text = <<>>
    /\ pc = <<>>
    /\ fault = "none"

\* Whether a further call can be made on result.
CanCall == pc # <<>> /\ Len(pc) < MaxCalls /\ fault = "none"

\* result = BigInt(v).
Construct ==
    /\ pc = <<>>
    /\ \E v \in (-MaxArgument)..MaxArgument : result' = BigIntOf(v)
    /\ pc' = <<"BigInt">>
    /\ UNCHANGED <<input, lhs, rhs, amount, answer, text, fault>>

\* result = BigInt::fromString(s) where the regex matches.
Parse ==
    /\ pc = <<>>
    /\ \E s \in InputStrings :
           /\ RegexMatch(s).ok
           /\ input' = s
           /\ result' = fromString(s)
    /\ pc' = <<"fromString">>
    /\ UNCHANGED <<lhs, rhs, amount, answer, text, fault>>

\* BigInt::fromString(s) where it does not: throw std::runtime_error.
ParseThrows ==
    /\ pc = <<>>
    /\ \E s \in InputStrings :
           /\ ~RegexMatch(s).ok
           /\ input' = s
    /\ fault' = "runtime_error"
    /\ pc' = <<"fromString">>
    /\ UNCHANGED <<lhs, rhs, amount, result, answer, text>>

\* result = -result.
Negation ==
    /\ CanCall
    /\ lhs' = result
    /\ result' = Negate(result)
    /\ pc' = Append(pc, "neg")
    /\ UNCHANGED <<input, rhs, amount, answer, text, fault>>

\* result += b.
AddAssign ==
    /\ CanCall
    /\ \E b \in Arguments :
           /\ rhs' = b
           /\ result' = Plus(result, b)
    /\ lhs' = result
    /\ pc' = Append(pc, "plus")
    /\ UNCHANGED <<input, amount, answer, text, fault>>

\* result -= b.
SubtractAssign ==
    /\ CanCall
    /\ \E b \in Arguments :
           /\ rhs' = b
           /\ result' = Minus(result, b)
    /\ lhs' = result
    /\ pc' = Append(pc, "minus")
    /\ UNCHANGED <<input, amount, answer, text, fault>>

\* result *= b.
MultiplyAssign ==
    /\ CanCall
    /\ \E b \in Arguments :
           /\ rhs' = b
           /\ result' = Times(result, b)
    /\ lhs' = result
    /\ pc' = Append(pc, "times")
    /\ UNCHANGED <<input, amount, answer, text, fault>>

\* result <<= k.
ShiftLeftAssign ==
    /\ CanCall
    /\ \E k \in (-MaxAmount)..MaxAmount :
           /\ amount' = k
           /\ \E o \in ShiftLeftOutcomes(result, k) :
                  /\ result' = o.value
                  /\ fault' = o.fault
    /\ lhs' = result
    /\ pc' = Append(pc, "shl")
    /\ UNCHANGED <<input, rhs, answer, text>>

\* result >>= k.
ShiftRightAssign ==
    /\ CanCall
    /\ \E k \in (-MaxAmount)..MaxAmount :
           /\ amount' = k
           /\ \E o \in ShiftRightOutcomes(result, k) :
                  /\ result' = o.value
                  /\ fault' = o.fault
    /\ lhs' = result
    /\ pc' = Append(pc, "shr")
    /\ UNCHANGED <<input, rhs, answer, text>>

\* result < b, result == b, result > b (and <=, >=, !=) for b an integer
\* argument or a copy of result.
Compare ==
    /\ CanCall
    /\ \E b \in Arguments \cup {result} :
           /\ rhs' = b
           /\ \E o \in CompareOutcomes(result, b) :
                  /\ answer' = o
                  /\ fault' = IF "crash" \in {o.less, o.equal, o.greater}
                              THEN "crash" ELSE "none"
    /\ lhs' = result
    /\ pc' = Append(pc, "compare")
    /\ UNCHANGED <<input, amount, result, text>>

NextCalls ==
    \/ Construct
    \/ Parse
    \/ ParseThrows
    \/ Negation
    \/ AddAssign
    \/ SubtractAssign
    \/ MultiplyAssign
    \/ ShiftLeftAssign
    \/ ShiftRightAssign
    \/ Compare

SpecCalls == InitCalls /\ [][NextCalls]_vars

(***************************************************************************)
(* Decimal digits: toDecimal() on a value fromString returned.             *)
(***************************************************************************)
\* The values converted are 0 .. MaxMagnitude.
MaxMagnitude == 5000

InitDecimal ==
    /\ input = <<>>
    /\ lhs \in {fromString(DecimalString(v)) : v \in 0..MaxMagnitude}
    /\ rhs = DefaultBigInt
    /\ amount = 0
    /\ result = DefaultBigInt
    /\ answer = <<>>
    /\ text = <<>>
    /\ pc = <<>>
    /\ fault = "none"

\* auto dec_data = lhs.toDecimal(), as operator<< calls it.
ToDecimal ==
    /\ pc = <<>>
    /\ answer' = toDecimal(lhs.data)
    /\ pc' = <<"toDecimal">>
    /\ UNCHANGED <<input, lhs, rhs, amount, result, text, fault>>

NextDecimal == ToDecimal

SpecDecimal == InitDecimal /\ [][NextDecimal]_vars

(***************************************************************************)
(* Properties                                                              *)
(***************************************************************************)
\* The integer a limb sequence stands for: sum of data[i] * 2^(32 i).
RECURSIVE Magnitude(_)
Magnitude(dat) ==
    IF dat = <<>> THEN 0 ELSE dat[1] + GROUP_RADIX * Magnitude(Tail(dat))

\* value(x) = (sign ? -1 : 1) * magnitude.
Value(x) == IF x.signal THEN -Magnitude(x.data) ELSE Magnitude(x.data)

\* BigInt(0) and BigInt(-1).
Zero == BigIntOf(0)

MinusOne == BigIntOf(-1)

\* floor(v / 2^k).
FloorShift(v, k) ==
    IF v >= 0 THEN v \div Pow2(k) ELSE -((-v + Pow2(k) - 1) \div Pow2(k))

\* A digit string without its leading zeros (the last digit stays).
RECURSIVE StripZeros(_)
StripZeros(digits) ==
    IF Len(digits) > 1 /\ digits[1] = "0" THEN StripZeros(Tail(digits))
    ELSE digits

\* The canonical form of a string the regex matches: '-' only when the
\* string has '-' and its digits are not all zero, then the digits without
\* leading zeros.
Canonical(s) ==
    LET m == RegexMatch(s)
        digits == StripZeros(m.digits)
    IN  (IF m.sign = <<"-">> /\ digits # <<"0">> THEN <<"-">> ELSE <<>>)
        \o digits

\* No redundant top limb, every limb below the radix.
Trimmed(dat) ==
    /\ Len(dat) >= 1
    /\ Len(dat) > 1 => Last(dat) # 0
    /\ \A i \in 1..Len(dat) : dat[i] \in 0..GROUP_MAX

\* C1: writing fromString(s) with operator<< yields s in canonical form
\* (sign only for a non-zero negative, no '+', no whitespace, no leading
\* zeros, zero written "0").
C1_RoundTripCanonical ==
    pc = <<"fromString", "write">> => text = Canonical(input)

\* C2: a + b represents exactly value(a) + value(b), whatever the signs and
\* the limb counts.
C2_SumExact ==
    pc = <<"plus">> => Value(result) = Value(lhs) + Value(rhs)

\* C3: a - b == a + (-b), and the result represents value(a) - value(b).
C3_DifferenceIsSumOfNegation ==
    pc = <<"minus">> =>
        /\ Equal(result, Plus(lhs, Negate(rhs)))
        /\ Value(result) = Value(lhs) - Value(rhs)

\* C4: x + 0 == x, x - 0 == x and x + (-x) == 0 for every x.
C4_AdditiveIdentityInverse ==
    /\ (pc = <<"plus">> /\ rhs = Zero) => Equal(result, lhs)
    /\ (pc = <<"minus">> /\ rhs = Zero) => Equal(result, lhs)
    /\ (pc = <<"plus">> /\ rhs = Negate(lhs)) => Equal(result, Zero)

\* C5: a + b == b + a.
C5_SumCommutes ==
    pc = <<"plus">> => Equal(result, Plus(rhs, lhs))

\* C6: for k >= 0, x >> k equals floor(value(x) / 2^k): truncation for a
\* non-negative x, rounding toward negative infinity for a negative x.
\* Stated of a non-zero x and an amount below its 32 n bits, so that a
\* violation is one of rounding; the amounts from 32 n on are C7's.
C6_RightShiftFloors ==
    (/\ pc = <<"shr">>
     /\ amount >= 0
     /\ amount < GROUP_BIT_SIZE * Len(lhs.data)
     /\ Magnitude(lhs.data) # 0) =>
        /\ fault = "none"
        /\ Value(result) = FloorShift(Value(lhs), amount)

\* C7: for k >= 32 n (n the limb count of x), x >>= k completes with a
\* non-empty limb sequence, and the result is 0 for a non-negative x and
\* -1 for a negative x.
C7_RightShiftCollapse ==
    (pc = <<"shr">> /\ amount >= GROUP_BIT_SIZE * Len(lhs.data)) =>
        /\ fault = "none"
        /\ result.data # <<>>
        /\ result = IF lhs.signal THEN MinusOne ELSE Zero

\* C8: for k >= 0, x << k is value(x) * 2^k with the sign of x: floor(k/32)
\* zero limbs go in at the low end, no spilled bit is lost, and the limbs
\* are trimmed.
C8_LeftShiftExact ==
    (pc = <<"shl">> /\ amount >= 0) =>
        /\ fault = "none"
        /\ result.signal = lhs.signal
        /\ Trimmed(result.data)
        /\ Magnitude(result.data) = Magnitude(lhs.data) * Pow2(amount)
        /\ Magnitude(lhs.data) # 0 =>
               SubSeq(result.data, 1, amount \div GROUP_BIT_SIZE)
                   = Zeros(amount \div GROUP_BIT_SIZE)

\* C8, witness: a negative multi-limb x shifted by more than a limb and not
\* by a whole number of limbs, whose top limb spilled into a new one.
C8_Witness ==
    /\ pc = <<"shl">>
    /\ amount > GROUP_BIT_SIZE
    /\ amount % GROUP_BIT_SIZE # 0
    /\ lhs.signal
    /\ Len(lhs.data) > 1
    /\ Len(result.data) = Len(lhs.data) + (amount \div GROUP_BIT_SIZE) + 1

\* C9: for k >= 0, (x << k) >> k == x.
C9_ShiftRoundTrip ==
    (pc = <<"shl", "shr">> /\ amount >= 0) =>
        /\ fault = "none"
        /\ EqualOutcomes(result, lhs) = {"true"}

\* C10: a negative amount reverses the direction: x << (-k) == x >> k and
\* x >> (-k) == x << k for k >= 0.
C10_NegativeAmountReverses ==
    /\ (pc = <<"shl">> /\ amount <= 0) =>
           /\ fault = "none"
           /\ \A o \in ShiftRightOutcomes(lhs, -amount) :
                  o.fault = "none" /\ EqualOutcomes(result, o.value) = {"true"}
    /\ (pc = <<"shr">> /\ amount <= 0) =>
           /\ fault = "none"
           /\ \A o \in ShiftLeftOutcomes(lhs, -amount) :
                  o.fault = "none" /\ EqualOutcomes(result, o.value) = {"true"}

\* The representation invariant: the limbs are non-empty, the top limb is
\* non-zero unless it is the only one, and a zero magnitude has sign false.
Normalized(x) ==
    /\ Trimmed(x.data)
    /\ Magnitude(x.data) = 0 => x.signal = POSITIVE

\* C11: the sign of a * b is sign(a) xor sign(b) when the product is not
\* zero, and when either operand is zero the product is the canonical
\* non-negative zero (sign false, limbs [0]), so that a * b == BigInt(0).
\* Stated of operands that satisfy the representation invariant, so that a
\* violation is the product's own.
C11_ProductSign ==
    (pc = <<"times">> /\ Normalized(lhs) /\ Normalized(rhs)) =>
        /\ Magnitude(result.data) # 0 =>
               result.signal = (lhs.signal # rhs.signal)
        /\ (Magnitude(lhs.data) = 0 \/ Magnitude(rhs.data) = 0) =>
               /\ result = Zero
               /\ Equal(result, Zero)

\* C17: the magnitude of a * b is exactly |value(a)| * |value(b)|: every
\* value product[i+j] + rhs[i] * data[j] + carry fits the double-width
\* accumulator, the product vector has n + m + 1 limbs, and the result is
\* trimmed to minimal length.
C17_ProductExact ==
    pc = <<"times">> =>
        /\ Magnitude(result.data) = Magnitude(lhs.data) * Magnitude(rhs.data)
        /\ MultProduct(lhs, rhs).widest < DOUBLE_RADIX
        /\ Len(MultProduct(lhs, rhs).product)
               = Len(lhs.data) + Len(rhs.data) + 1
        /\ Trimmed(result.data)

\* C17, witness: two multi-limb operands of different signs whose product
\* fills n + m limbs, with an accumulator within one limb of its capacity.
C17_Witness ==
    /\ pc = <<"times">>
    /\ Len(lhs.data) > 1
    /\ Len(rhs.data) > 1
    /\ lhs.signal # rhs.signal
    /\ Len(result.data) = Len(lhs.data) + Len(rhs.data)
    /\ MultProduct(lhs, rhs).widest >= DOUBLE_RADIX - GROUP_RADIX

\* C12: after any sequence of public operations (construction from an
\* integer, fromString, unary -, +=, -=, *=, <<=, >>=) the value satisfies
\* the representation invariant: the limbs are non-empty, the top limb is
\* non-zero unless it is the only limb, and a zero magnitude has sign false.
C12_RepresentationInvariant ==
    (pc # <<>> /\ fault = "none") => Normalized(result)

\* What the comparison operators returned, as bools.
Holds(outcome) == outcome = "true"

\* C13: the ordering is total: for all values a and b the public operations
\* produce, exactly one of a < b, a == b, a > b holds.
C13_OrderingTotal ==
    (pc # <<>> /\ pc[Len(pc)] = "compare") =>
        /\ fault = "none"
        /\ \/ Holds(answer.less) /\ ~Holds(answer.equal) /\ ~Holds(answer.greater)
           \/ ~Holds(answer.less) /\ Holds(answer.equal) /\ ~Holds(answer.greater)
           \/ ~Holds(answer.less) /\ ~Holds(answer.equal) /\ Holds(answer.greater)

\* C14: operator< agrees with the numeric order: a < b holds if and only if
\* value(a) < value(b), also when both are negative, with equal or different
\* limb counts.  Stated of operands that satisfy the representation
\* invariant, so that a violation is the comparison's own.
C14_LessIsNumericOrder ==
    (/\ pc # <<>>
     /\ pc[Len(pc)] = "compare"
     /\ Normalized(lhs)
     /\ Normalized(rhs)) =>
        /\ fault = "none"
        /\ Holds(answer.less) <=> (Value(lhs) < Value(rhs))

\* The pattern of a decimal integer: optional whitespace, an optional '+' or
\* '-', optional whitespace, one or more decimal digits, optional
\* whitespace.  a, b, c and d are the positions where the parts end.
MatchesPattern(s) ==
    \E a \in 0..Len(s), b \in 0..Len(s), c \in 0..Len(s), d \in 0..Len(s) :
        /\ a <= b /\ b <= c /\ c < d
        /\ \A i \in 1..a : s[i] \in Spaces
        /\ b = a \/ (b = a + 1 /\ s[b] \in {"+", "-"})
        /\ \A i \in (b + 1)..c : s[i] \in Spaces
        /\ \A i \in (c + 1)..d : s[i] \in Digits
        /\ \A i \in (d + 1)..Len(s) : s[i] \in Spaces

\* C15: fromString fails with an error, and returns no value, for every
\* string that does not match the pattern, and succeeds for every string
\* that does; no other operation (arithmetic, shifts, comparisons, integer
\* construction) ends in an error.
C15_OnlyFormatErrors ==
    /\ pc = <<"fromString">> =>
           /\ fault = "runtime_error" <=> ~MatchesPattern(input)
           /\ fault = "none" <=> MatchesPattern(input)
           /\ fault = "runtime_error" => result = DefaultBigInt
    /\ (pc # <<>> /\ pc # <<"fromString">>) => fault = "none"

\* The integer a sequence of base-10^9 digits stands for: sum of
\* d[i] * 10^(9 i).
RECURSIVE DecimalValue(_)
DecimalValue(dec) ==
    IF dec = <<>> THEN 0 ELSE dec[1] + DEC_RADIX * DecimalValue(Tail(dec))

\* C16: toDecimal is exact for every magnitude: the digits d it returns are
\* each below 10^9, except possibly the top one, and the sum of
\* d[i] * 10^(9 i) equals the sum of limbs[i] * 2^(32 i), also when a
\* quotient of the accumulator by 10^9 is equal to or above 2^32.
C16_DecimalExact ==
    pc = <<"toDecimal">> =>
        /\ Len(answer) >= 1
        /\ \A i \in 1..(Len(answer) - 1) : answer[i] < DEC_RADIX
        /\ DecimalValue(answer) = Magnitude(lhs.data)

=============================================================================
